---- MODULE Spec2Model ----
(***************************************************************************)
(* Model of the data types of the HDC20xx sensor driver (src/types.rs):    *)
(* the slave-address resolution, the measurement-mode enumerations with    *)
(* their register encodings, the status flags, the measurement aggregate   *)
(* and the error type.  Every pure function of the source is an operator;  *)
(* the actions apply those operators to inputs drawn from small sets and   *)
(* record the inputs and the results in the state.                         *)
(***************************************************************************)
EXTENDS Integers, Sequences, FiniteSets

VARIABLES
    sel,             \* SlaveAddr most recently resolved
    address,         \* u8 returned by sel.addr()
    selOrigin,       \* "default" if sel came from SlaveAddr::default(), else "explicit"
    prevSel,         \* SlaveAddr resolved before sel
    prevAddress,     \* u8 returned for prevSel
    prevOrigin,      \* selOrigin of prevSel
    amm,             \* AutomaticMeasurementMode most recently chosen
    reg,             \* amm as u8 (the byte written to the configuration register)
    lastError,       \* Option<Error<E>> most recently constructed
    errIn,           \* transport error value handed to Error::I2C
    mode,            \* MeasurementMode in force
    modeOrigin,      \* "default" if mode came from MeasurementMode::default()
    lastMeasurement, \* Option<Measurement> most recently produced
    takenUnder,      \* Option<MeasurementMode> in force when it was produced
    lhs,             \* Status on the left of the last == comparison
    rhs,             \* Status on the right of the last == comparison
    eqResult         \* result of lhs == rhs

vars == <<sel, address, selOrigin, prevSel, prevAddress, prevOrigin, amm, reg, lastError,
          errIn, mode, modeOrigin, lastMeasurement, takenUnder, lhs, rhs,
          eqResult>>

addrVars == <<sel, address, selOrigin, prevSel, prevAddress, prevOrigin>>
ammVars == <<amm, reg>>
errVars == <<lastError, errIn>>
measVars == <<mode, modeOrigin, lastMeasurement, takenUnder>>
statusVars == <<lhs, rhs, eqResult>>

(***************************************************************************)
(* Bounds of the input sets.                                               *)
(***************************************************************************)
MaxTransportError == 2
MaxTemperature == 1
MaxHumidity == 1

TransportErrors == 0..MaxTransportError
Temperatures == 0..MaxTemperature
Humidities == 0..MaxHumidity

(***************************************************************************)
(* Option<T>                                                               *)
(***************************************************************************)
None == <<>>
Some(x) == <<x>>

(***************************************************************************)
(* u8 arithmetic                                                           *)
(***************************************************************************)
U8Bits == 8

\* A binary literal 0bXXXXXXXX, most significant digit first.
RECURSIVE Bin(_)
Bin(digits) ==
    IF digits = <<>> THEN 0
    ELSE 2 * Bin(SubSeq(digits, 1, Len(digits) - 1)) + digits[Len(digits)]

\* a | b on the low n bits.
RECURSIVE BitOrN(_, _, _)
BitOrN(a, b, n) ==
    IF n = 0 THEN 0
    ELSE (IF a % 2 = 1 \/ b % 2 = 1 THEN 1 ELSE 0)
         + 2 * BitOrN(a \div 2, b \div 2, n - 1)

\* a | b on u8.
BitOr(a, b) == BitOrN(a, b, U8Bits)

(***************************************************************************)
(* SlaveAddr                                                               *)
(***************************************************************************)
\* crate::BASE_ADDR, declared in the crate root.
BASE_ADDR == 64

SlaveAddr_Default == <<"Default">>
SlaveAddr_Alternative(b) == <<"Alternative", b>>

SlaveAddrValues ==
    {SlaveAddr_Default} \cup {SlaveAddr_Alternative(b) : b \in BOOLEAN}

SlaveAddr_default_Alternative == SlaveAddr_Alternative(TRUE)

\* impl Default for SlaveAddr
SlaveAddr_default == SlaveAddr_Default

addr_Inverted(self) ==
    CASE self = SlaveAddr_Default -> BASE_ADDR
      [] self = SlaveAddr_Alternative(FALSE) -> BitOr(BASE_ADDR, 1)
      [] self = SlaveAddr_Alternative(TRUE) -> BASE_ADDR

addr_IgnoresBit(self) ==
    CASE self = SlaveAddr_Default -> BASE_ADDR
      [] self = SlaveAddr_Alternative(FALSE) -> BASE_ADDR
      [] self = SlaveAddr_Alternative(TRUE) -> BASE_ADDR

addr_OrTwo(self) ==
    CASE self = SlaveAddr_Default -> BASE_ADDR
      [] self = SlaveAddr_Alternative(FALSE) -> BASE_ADDR
      [] self = SlaveAddr_Alternative(TRUE) -> BitOr(BASE_ADDR, 2)

\* SlaveAddr::addr
addr(self) ==
    CASE self = SlaveAddr_Default -> BASE_ADDR
      [] self = SlaveAddr_Alternative(FALSE) -> BASE_ADDR
      [] self = SlaveAddr_Alternative(TRUE) -> BitOr(BASE_ADDR, 1)

(***************************************************************************)
(* AutomaticMeasurementMode                                                *)
(***************************************************************************)
AutomaticMeasurementModeValues ==
    {"Disabled", "TwoMinutes", "OneMinute", "TenSeconds", "FiveSeconds",
     "OneHertz", "TwoHertz", "FiveHertz"}

Discriminant_WrongInterval(v) ==
    CASE v = "Disabled"    -> Bin(<<0,0,0,0,0,0,0,0>>)
      [] v = "TwoMinutes"  -> Bin(<<0,0,0,1,0,1,0,0>>)
      [] v = "OneMinute"   -> Bin(<<0,0,1,0,0,1,0,0>>)
      [] v = "TenSeconds"  -> Bin(<<0,0,1,1,0,0,0,0>>)
      [] v = "FiveSeconds" -> Bin(<<0,1,0,0,0,1,0,0>>)
      [] v = "OneHertz"    -> Bin(<<0,1,0,1,0,1,0,0>>)
      [] v = "TwoHertz"    -> Bin(<<0,1,1,0,0,1,0,0>>)
      [] v = "FiveHertz"   -> Bin(<<0,1,1,1,0,1,0,0>>)

Discriminant_Collision(v) ==
    CASE v = "Disabled"    -> Bin(<<0,0,0,0,0,0,0,0>>)
      [] v = "TwoMinutes"  -> Bin(<<0,0,0,1,0,1,0,0>>)
      [] v = "OneMinute"   -> Bin(<<0,0,1,0,0,1,0,0>>)
      [] v = "TenSeconds"  -> Bin(<<0,0,1,1,0,1,0,0>>)
      [] v = "FiveSeconds" -> Bin(<<0,1,0,0,0,1,0,0>>)
      [] v = "OneHertz"    -> Bin(<<0,1,0,0,0,1,0,0>>)
      [] v = "TwoHertz"    -> Bin(<<0,1,1,0,0,1,0,0>>)
      [] v = "FiveHertz"   -> Bin(<<0,1,1,1,0,1,0,0>>)

\* #[repr(u8)] discriminant of a variant: the value of `v as u8`.
Discriminant(v) ==
    CASE v = "Disabled"    -> Bin(<<0,0,0,0,0,0,0,0>>)
      [] v = "TwoMinutes"  -> Bin(<<0,0,0,1,0,1,0,0>>)
      [] v = "OneMinute"   -> Bin(<<0,0,1,0,0,1,0,0>>)
      [] v = "TenSeconds"  -> Bin(<<0,0,1,1,0,1,0,0>>)
      [] v = "FiveSeconds" -> Bin(<<0,1,0,0,0,1,0,0>>)
      [] v = "OneHertz"    -> Bin(<<0,1,0,1,0,1,0,0>>)
      [] v = "TwoHertz"    -> Bin(<<0,1,1,0,0,1,0,0>>)
      [] v = "FiveHertz"   -> Bin(<<0,1,1,1,0,1,0,0>>)

(***************************************************************************)
(* Error<E>                                                                *)
(***************************************************************************)
Error_I2C_Lossy(e) == <<"I2C", 0>>

Error_I2C(e) == <<"I2C", e>>
Error_InvalidInputData == <<"InvalidInputData">>

ErrorValues == {Error_I2C(e) : e \in TransportErrors} \cup {Error_InvalidInputData}

(***************************************************************************)
(* MeasurementMode                                                         *)
(***************************************************************************)
MeasurementModeValues == {"TemperatureAndHumidity", "TemperatureOnly"}

MeasurementMode_default_TemperatureOnly == "TemperatureOnly"

\* impl Default for MeasurementMode
MeasurementMode_default == "TemperatureAndHumidity"

(***************************************************************************)
(* Status                                                                  *)
(***************************************************************************)
StatusFlags ==
    {"data_ready", "high_temp_threshold_exceeded", "low_temp_threshold_exceeded",
     "high_humidity_threshold_exceeded", "low_humidity_threshold_exceeded"}

StatusValues ==
    [data_ready : BOOLEAN,
     high_temp_threshold_exceeded : BOOLEAN,
     low_temp_threshold_exceeded : BOOLEAN,
     high_humidity_threshold_exceeded : BOOLEAN,
     low_humidity_threshold_exceeded : BOOLEAN]

Status_eq_SkipsLastField(a, b) ==
    /\ a.data_ready = b.data_ready
    /\ a.high_temp_threshold_exceeded = b.high_temp_threshold_exceeded
    /\ a.low_temp_threshold_exceeded = b.low_temp_threshold_exceeded
    /\ a.high_humidity_threshold_exceeded = b.high_humidity_threshold_exceeded

\* #[derive(PartialEq)] for Status: field by field, in declaration order.
Status_eq(a, b) ==
    /\ a.data_ready = b.data_ready
    /\ a.high_temp_threshold_exceeded = b.high_temp_threshold_exceeded
    /\ a.low_temp_threshold_exceeded = b.low_temp_threshold_exceeded
    /\ a.high_humidity_threshold_exceeded = b.high_humidity_threshold_exceeded
    /\ a.low_humidity_threshold_exceeded = b.low_humidity_threshold_exceeded

(***************************************************************************)
(* Measurement                                                             *)
(***************************************************************************)
HumidityFor_AlwaysPresent(m, h) == Some(h)

\* The humidity field the driver fills in for a reading taken under mode m.
HumidityFor(m, h) ==
    IF m = "TemperatureAndHumidity" THEN Some(h) ELSE None

\* Measurement { temperature, humidity, status }
Measurement(t, hum, st) ==
    [temperature |-> t, humidity |-> hum, status |-> st]

(***************************************************************************)
(* Initial state                                                           *)
(***************************************************************************)
ZeroStatus ==
    [data_ready |-> FALSE,
     high_temp_threshold_exceeded |-> FALSE,
     low_temp_threshold_exceeded |-> FALSE,
     high_humidity_threshold_exceeded |-> FALSE,
     low_humidity_threshold_exceeded |-> FALSE]

Init ==
    /\ sel = SlaveAddr_default
    /\ address = addr(SlaveAddr_default)
    /\ selOrigin = "default"
    /\ prevSel = SlaveAddr_default
    /\ prevAddress = addr(SlaveAddr_default)
    /\ prevOrigin = "default"
    /\ amm = "Disabled"
    /\ reg = Discriminant("Disabled")
    /\ lastError = None
    /\ errIn = 0
    /\ mode = MeasurementMode_default
    /\ modeOrigin = "default"
    /\ lastMeasurement = None
    /\ takenUnder = None
    /\ lhs = ZeroStatus
    /\ rhs = ZeroStatus
    /\ eqResult = Status_eq(ZeroStatus, ZeroStatus)

(***************************************************************************)
(* Actions                                                                 *)
(***************************************************************************)
\* s.addr() for a selection s given by the caller.
SelectAddress ==
    \E s \in SlaveAddrValues :
        /\ prevSel' = sel
        /\ prevAddress' = address
    /\ prevOrigin' = selOrigin
        /\ prevOrigin' = selOrigin
        /\ sel' = s
        /\ address' = addr(s)
        /\ selOrigin' = "explicit"
        /\ UNCHANGED <<ammVars, errVars, measVars, statusVars>>

\* SlaveAddr::default().addr()
DefaultAddress ==
    /\ prevSel' = sel
    /\ prevAddress' = address
    /\ prevOrigin' = selOrigin
    /\ sel' = SlaveAddr_default
    /\ address' = addr(SlaveAddr_default)
    /\ selOrigin' = "default"
    /\ UNCHANGED <<ammVars, errVars, measVars, statusVars>>

\* v as u8 for an automatic measurement mode v given by the caller.
SetAutomaticMeasurementMode ==
    \E v \in AutomaticMeasurementModeValues :
        /\ amm' = v
        /\ reg' = Discriminant(v)
        /\ UNCHANGED <<addrVars, errVars, measVars, statusVars>>

\* Error::I2C(e) for a transport error e.
FailTransport ==
    \E e \in TransportErrors :
        /\ errIn' = e
        /\ lastError' = Some(Error_I2C(e))
        /\ UNCHANGED <<addrVars, ammVars, measVars, statusVars>>

\* Error::InvalidInputData
FailInvalidInput ==
    /\ lastError' = Some(Error_InvalidInputData)
    /\ UNCHANGED <<errIn, addrVars, ammVars, measVars, statusVars>>

\* A measurement mode m given by the caller.
SetMeasurementMode ==
    \E m \in MeasurementModeValues :
        /\ mode' = m
        /\ modeOrigin' = "explicit"
        /\ UNCHANGED <<lastMeasurement, takenUnder, addrVars, ammVars, errVars,
                       statusVars>>

\* MeasurementMode::default()
DefaultMeasurementMode ==
    /\ mode' = MeasurementMode_default
    /\ modeOrigin' = "default"
    /\ UNCHANGED <<lastMeasurement, takenUnder, addrVars, ammVars, errVars,
                   statusVars>>

\* A reading under the mode in force: Measurement { temperature, humidity, status }.
ReadMeasurement ==
    \E t \in Temperatures, h \in Humidities, st \in StatusValues :
        /\ lastMeasurement' = Some(Measurement(t, HumidityFor(mode, h), st))
        /\ takenUnder' = Some(mode)
        /\ UNCHANGED <<mode, modeOrigin, addrVars, ammVars, errVars, statusVars>>

\* a == b for two Status values.
CompareStatus ==
    \E a \in StatusValues, b \in StatusValues :
        /\ lhs' = a
        /\ rhs' = b
        /\ eqResult' = Status_eq(a, b)
        /\ UNCHANGED <<addrVars, ammVars, errVars, measVars>>

(***************************************************************************)
(* Specifications                                                          *)
(***************************************************************************)
Next ==
    \/ SelectAddress
    \/ DefaultAddress
    \/ SetAutomaticMeasurementMode
    \/ FailTransport
    \/ FailInvalidInput

Spec == Init /\ [][Next]_vars

NextMeasurement ==
    \/ SetMeasurementMode
    \/ DefaultMeasurementMode
    \/ ReadMeasurement

SpecMeasurement == Init /\ [][NextMeasurement]_vars

NextStatus == CompareStatus

SpecStatus == Init /\ [][NextStatus]_vars

(***************************************************************************)
(* Properties                                                              *)
(***************************************************************************)
\* x with bit 0 forced to 1.
WithBit0Set(x) == x + 1 - (x % 2)

\* The selection whose resolution is recorded, with the address it gave.
Resolutions == {<<sel, address>>, <<prevSel, prevAddress>>}

\* C1: every selection resolves to a u8: BASE_ADDR for Default and for
\* Alternative(false), BASE_ADDR with bit 0 set for Alternative(true).
C1_AddrTable ==
    \A r \in Resolutions :
        /\ r[1] \in SlaveAddrValues
        /\ r[2] \in 0..255
        /\ r[1] = SlaveAddr_Default => r[2] = BASE_ADDR
        /\ r[1] = SlaveAddr_Alternative(FALSE) => r[2] = BASE_ADDR
        /\ r[1] = SlaveAddr_Alternative(TRUE) => r[2] = WithBit0Set(BASE_ADDR)

C1_Witness ==
    /\ sel = SlaveAddr_Alternative(TRUE)
    /\ prevSel = SlaveAddr_Default
    /\ prevOrigin = "explicit"
    /\ address = WithBit0Set(BASE_ADDR)

\* C2: the register byte of each automatic measurement mode is the literal
\* listed for it, and the modes are exactly the eight listed.
C2_Encodings ==
    /\ amm \in AutomaticMeasurementModeValues
    /\ Cardinality(AutomaticMeasurementModeValues) = 8
    /\ amm = "Disabled" => reg = 0       \* 0x00
    /\ amm = "TwoMinutes" => reg = 20    \* 0x14
    /\ amm = "OneMinute" => reg = 36     \* 0x24
    /\ amm = "TenSeconds" => reg = 52    \* 0x34
    /\ amm = "FiveSeconds" => reg = 68   \* 0x44
    /\ amm = "OneHertz" => reg = 84      \* 0x54
    /\ amm = "TwoHertz" => reg = 100     \* 0x64
    /\ amm = "FiveHertz" => reg = 116    \* 0x74

C2_Witness == amm = "TenSeconds" /\ reg = 52

\* C3: a measurement carries a humidity exactly when it was taken under
\* TemperatureAndHumidity; one taken under TemperatureOnly has none.
C3_HumidityIffMode ==
    lastMeasurement # None =>
        /\ lastMeasurement[1].humidity # None
               <=> takenUnder = Some("TemperatureAndHumidity")
        /\ takenUnder = Some("TemperatureOnly")
               => lastMeasurement[1].humidity = None

C3_Witness ==
    /\ lastMeasurement # None
    /\ takenUnder = Some("TemperatureOnly")
    /\ lastMeasurement[1].humidity = None
    /\ lastMeasurement[1].temperature = 0
    /\ lastMeasurement[1].status.data_ready

\* C4: MeasurementMode::default() is TemperatureAndHumidity at every call,
\* and so differs from TemperatureOnly.
C4_DefaultMode ==
    modeOrigin = "default" =>
        /\ mode = "TemperatureAndHumidity"
        /\ mode # "TemperatureOnly"

C4_Witness ==
    /\ modeOrigin = "default"
    /\ takenUnder = Some("TemperatureOnly")

\* C5: SlaveAddr::default() is the Default variant and resolves to BASE_ADDR,
\* the address the explicit Default selection resolves to.
C5_DefaultAddress ==
    /\ selOrigin = "default" =>
           /\ sel = SlaveAddr_Default
           /\ address = BASE_ADDR
    /\ (selOrigin = "default" /\ prevOrigin = "explicit"
           /\ prevSel = SlaveAddr_Default) => address = prevAddress

C5_Witness ==
    /\ selOrigin = "default"
    /\ prevOrigin = "explicit"
    /\ prevSel = SlaveAddr_Default
    /\ address = prevAddress

\* C6: Alternative(true) and Alternative(false) resolve to different
\* addresses; with BASE_ADDR = 0x40 they are 0x41 and 0x40.
C6_AlternativesDiffer ==
    \A r, q \in Resolutions :
        /\ (r[1] = SlaveAddr_Alternative(TRUE) /\ q[1] = SlaveAddr_Alternative(FALSE))
               => r[2] # q[2]
        /\ (BASE_ADDR = 64 /\ r[1] = SlaveAddr_Alternative(TRUE)) => r[2] = 65
        /\ (BASE_ADDR = 64 /\ r[1] = SlaveAddr_Alternative(FALSE)) => r[2] = 64

C6_Witness ==
    /\ sel = SlaveAddr_Alternative(TRUE)
    /\ prevSel = SlaveAddr_Alternative(FALSE)
    /\ address = 65
    /\ prevAddress = 64

\* The variants whose register byte is b.
Decodings(b) == {v \in AutomaticMeasurementModeValues : Discriminant(v) = b}

\* C7: no two automatic measurement modes share a register byte, so the
\* byte of a mode decodes to that mode and to no other.
C7_EncodingInjective ==
    /\ Decodings(reg) = {amm}
    /\ \A v \in AutomaticMeasurementModeValues : v # amm => Discriminant(v) # reg

C7_Witness ==
    /\ amm = "OneHertz"
    /\ Decodings(reg) = {"OneHertz"}

\* C8: two Status values compare equal exactly when all five flags agree;
\* a difference in any flag makes them unequal; all 32 combinations exist.
C8_StatusEquality ==
    /\ lhs \in StatusValues
    /\ rhs \in StatusValues
    /\ Cardinality(StatusValues) = 32
    /\ eqResult <=> (\A f \in StatusFlags : lhs[f] = rhs[f])
    /\ \A f \in StatusFlags : lhs[f] # rhs[f] => ~eqResult

C8_Witness ==
    /\ ~eqResult
    /\ lhs.low_humidity_threshold_exceeded # rhs.low_humidity_threshold_exceeded
    /\ \A f \in StatusFlags \ {"low_humidity_threshold_exceeded"} : lhs[f] = rhs[f]

\* C9: an Error is one of two variants; Error::I2C(e) carries e unchanged
\* and is never InvalidInputData.
C9_ErrorVariants ==
    lastError # None =>
        LET err == lastError[1] IN
        /\ err[1] \in {"I2C", "InvalidInputData"}
        /\ err[1] = "I2C" =>
               /\ Len(err) = 2
               /\ err[2] = errIn
               /\ err # Error_InvalidInputData
        /\ err[1] = "InvalidInputData" => err = Error_InvalidInputData

C9_Witness ==
    /\ lastError # None
    /\ lastError[1][1] = "I2C"
    /\ lastError[1][2] = errIn
    /\ errIn > 0

\* C10: resolution changes no bit of BASE_ADDR but bit 0, and gives a 7-bit
\* value that is BASE_ADDR or BASE_ADDR with bit 0 set.
C10_OnlyBitZero ==
    \A r \in Resolutions :
        /\ r[2] \div 2 = BASE_ADDR \div 2
        /\ r[2] >= 0
        /\ r[2] <= 127
        /\ r[2] \in {BASE_ADDR, WithBit0Set(BASE_ADDR)}

C10_Witness ==
    /\ sel = SlaveAddr_Alternative(TRUE)
    /\ prevSel = SlaveAddr_Alternative(TRUE)
    /\ address \div 2 = BASE_ADDR \div 2
    /\ address % 2 = 1

====
